---- MODULE Spec2Model ----
(***************************************************************************)
(* Model of the fetch / state-synchronisation lifecycle of the React       *)
(* Native component App (src/hello-rn/App.tsx): the four useState cells,   *)
(* the async function fetchMeals with its two suspension points, the mount *)
(* effect, the two places the user can re-invoke fetchMeals from, the      *)
(* search box, and the derived list filteredMeals.                         *)
(*                                                                         *)
(* JavaScript runs every continuation to completion.  A call of fetchMeals *)
(* therefore runs in three uninterruptible pieces:                         *)
(*   - from the call to `await fetch(API_URL)`            (FetchMealsCall) *)
(*   - from the fetch result to `await response.json()`, or through the    *)
(*     catch block                                  (FetchRejects,         *)
(*                                                   FetchNotOk, FetchOk)  *)
(*   - from the parsed body through the try or catch block                 *)
(*                                                  (JsonResolves,         *)
(*                                                   JsonRejects)          *)
(* and the finally block (FinallyBlock) follows the try or catch block in  *)
(* the same continuation.  The state between the outcome write (setMeals   *)
(* or setError) and setIsLoading(false) is kept as a state of the model,   *)
(* because a React build without automatic batching renders it; no other   *)
(* handler runs in it (Running).                                           *)
(***************************************************************************)
EXTENDS Integers, Sequences, FiniteSets, TLC

(* Bounds of the model. *)
MaxFetches == 3
MaxMeals == 1
MaxQueryLen == 1
MaxListLen == 2
MaxNeedleLen == 2

Null == "null"

(* setError's only non-null argument (line 54), abbreviated. *)
ErrorMessage == "Falha ao carregar"

(* One-character strings; a string of the program is a sequence of them. *)
Chars == {"a", "A", "b"}

(* String.prototype.toLowerCase on one character of Chars. *)
LowerChar(c) == IF c = "A" THEN "a" ELSE c

(* String.prototype.toLowerCase. *)
ToLowerCase(s) == [k \in 1..Len(s) |-> LowerChar(s[k])]

(* String.prototype.includes: sub occurs in s at some offset. *)
Includes(s, sub) ==
    \E off \in 0..(Len(s) - Len(sub)) :
        \A k \in 1..Len(sub) : s[off + k] = sub[k]

(* The records the endpoint can serve (type MealListItem). *)
MealListItem ==
    { [idMeal |-> "1", strMeal |-> <<"A", "b">>, strMealThumb |-> "u1"],
      [idMeal |-> "2", strMeal |-> <<"b", "a">>, strMealThumb |-> "u2"],
      [idMeal |-> "3", strMeal |-> <<"b", "b">>, strMealThumb |-> "u3"] }

RECURSIVE SeqsUpTo(_, _)
SeqsUpTo(S, n) ==
    IF n = 0 THEN { <<>> }
    ELSE LET shorter == SeqsUpTo(S, n - 1)
         IN  shorter \cup { Append(s, x) : s \in { t \in shorter : Len(t) = n - 1 }, x \in S }

(* The records the endpoint serves in the lifecycle model. *)
Served == { m \in MealListItem : m.idMeal \in {"1", "2"} }

(* The arrays a response can carry under the key "meals". *)
MealArrays == SeqsUpTo(Served, MaxMeals)

(* What the user can type in the search box. *)
Queries == SeqsUpTo(Chars, MaxQueryLen)

(* The lists and the queries the filter is exercised on. *)
Lists == SeqsUpTo(MealListItem, MaxListLen)
Needles == SeqsUpTo(Chars, MaxNeedleLen)

(* The values `await response.json()` can resolve to, by what         *)
(* `data && data.meals` makes of them: an array under "meals", the key *)
(* present and null, the key absent, or a body that is itself null.    *)
Bodies ==
    { [shape |-> "array", meals |-> a] : a \in MealArrays }
    \cup { [shape |-> s, meals |-> <<>>] : s \in {"mealsNull", "mealsAbsent", "dataNull"} }

(* The truthiness test of line 47. *)
HasMeals(data) == data.shape = "array"

Calls == 1..MaxFetches

VARIABLES
    meals,        \* useState cell, line 31
    isLoading,    \* useState cell, line 32
    searchQuery,  \* useState cell, line 33
    error,        \* useState cell, line 34
    mounted,      \* the mount effect of lines 60-62 has run
    pc,           \* pc[i]: where call i of fetchMeals stands
    trigger,      \* trigger[i]: the call site that made call i
    mealsAtCall,  \* history: meals when call i was made, kept while call i is in flight
    outcome,      \* history: "ok" once call i ran setMeals, "fail" once it ran setError
    writes,       \* history: writes[i][w] counts call i's setMeals / setError(message) / setIsLoading(false)
    overlapped,   \* history: another call was in flight at some time during call i
    superseded,   \* history: a call was made after call i ran setMeals or setError
    lastBody,     \* history: the parsed body of the latest JsonResolves
    lastSettled,  \* history: the call that returned last, 0 before any has
    answer        \* history: what the network handed the continuation that is running

vars == << meals, isLoading, searchQuery, error, mounted, pc, trigger,
           mealsAtCall, outcome, writes, overlapped, superseded, lastBody, lastSettled,
           answer >>

hist == << mealsAtCall, outcome, writes, overlapped, superseded, lastBody, lastSettled,
           answer >>

NoWrites == [setMeals |-> 0, setError |-> 0, setIsLoadingFalse |-> 0]

NoBody == [shape |-> "none", meals |-> <<>>]

(* The state of the first render: the useState initial values. *)
Init ==
    /\ meals = <<>>
    /\ isLoading = TRUE
    /\ searchQuery = <<>>
    /\ error = Null
    /\ mounted = FALSE
    /\ pc = [i \in Calls |-> "idle"]
    /\ trigger = [i \in Calls |-> "none"]
    /\ mealsAtCall = [i \in Calls |-> <<>>]
    /\ outcome = [i \in Calls |-> "none"]
    /\ writes = [i \in Calls |-> NoWrites]
    /\ overlapped = [i \in Calls |-> FALSE]
    /\ superseded = [i \in Calls |-> FALSE]
    /\ lastBody = NoBody
    /\ lastSettled = 0
    /\ answer = "none"

InFlight(i) == pc[i] \in {"fetching", "parsing", "finally"}

(* A continuation of fetchMeals is between its outcome write and its *)
(* finally block: nothing else runs until it has returned.           *)
Running == \E i \in Calls : pc[i] = "finally"

(* Which of the three returns of App the screen shows. *)
LoadingScreen == isLoading /\ Len(meals) = 0
ErrorScreen == ~LoadingScreen /\ error # Null /\ Len(meals) = 0
ListScreen == ~LoadingScreen /\ ~ErrorScreen

(* The next call of fetchMeals, if the model has one left. *)
NextCall == Cardinality({ i \in Calls : pc[i] # "idle" }) + 1

(* FetchMealsCall that empties the list while the new one is loading. *)
FetchMealsCallClearing(i, site) ==
    /\ ~Running
    /\ i = NextCall
    /\ i \in Calls
    /\ isLoading' = TRUE
    /\ error' = Null
    /\ meals' = <<>>
    /\ pc' = [pc EXCEPT ![i] = "fetching"]
    /\ trigger' = [trigger EXCEPT ![i] = site]
    /\ mealsAtCall' = [mealsAtCall EXCEPT ![i] = meals]
    /\ overlapped' = [j \in Calls |->
                        IF j = i THEN \E k \in Calls : InFlight(k)
                        ELSE overlapped[j] \/ InFlight(j)]
    /\ superseded' = [j \in Calls |-> superseded[j] \/ outcome[j] # "none"]
    /\ UNCHANGED << searchQuery, outcome, writes, lastBody, lastSettled, answer >>

(* FetchMealsCall without its setError(null). *)
FetchMealsCallKeepsError(i, site) ==
    /\ ~Running
    /\ i = NextCall
    /\ i \in Calls
    /\ isLoading' = TRUE
    /\ pc' = [pc EXCEPT ![i] = "fetching"]
    /\ trigger' = [trigger EXCEPT ![i] = site]
    /\ mealsAtCall' = [mealsAtCall EXCEPT ![i] = meals]
    /\ overlapped' = [j \in Calls |->
                        IF j = i THEN \E k \in Calls : InFlight(k)
                        ELSE overlapped[j] \/ InFlight(j)]
    /\ superseded' = [j \in Calls |-> superseded[j] \/ outcome[j] # "none"]
    /\ UNCHANGED << meals, searchQuery, error, outcome, writes, lastBody, lastSettled,
                    answer >>

(* fetchMeals up to `await fetch(API_URL)`: lines 36-40. *)
FetchMealsCall(i, site) ==
    /\ ~Running
    /\ i = NextCall
    /\ i \in Calls
    /\ isLoading' = TRUE
    /\ error' = Null
    /\ pc' = [pc EXCEPT ![i] = "fetching"]
    /\ trigger' = [trigger EXCEPT ![i] = site]
    /\ mealsAtCall' = [mealsAtCall EXCEPT ![i] = meals]
    /\ overlapped' = [j \in Calls |->
                        IF j = i THEN \E k \in Calls : InFlight(k)
                        ELSE overlapped[j] \/ InFlight(j)]
    /\ superseded' = [j \in Calls |-> superseded[j] \/ outcome[j] # "none"]
    /\ UNCHANGED << meals, searchQuery, outcome, writes, lastBody, lastSettled,
                    answer >>

(* Mount for an effect without its empty dependency list: it runs after *)
(* every render.                                                        *)
MountEveryRender ==
    /\ mounted' = TRUE
    /\ FetchMealsCall(NextCall, "mount")

(* useEffect(() => { fetchMeals(); }, []): once, after the first render. *)
Mount ==
    /\ ~mounted
    /\ mounted' = TRUE
    /\ FetchMealsCall(NextCall, "mount")

(* onPress={fetchMeals} of the retry button, on the error screen. *)
Retry ==
    /\ mounted
    /\ ErrorScreen
    /\ FetchMealsCall(NextCall, "retry")
    /\ UNCHANGED mounted

(* onRefresh={fetchMeals} of the FlatList, on the list screen. *)
Refresh ==
    /\ mounted
    /\ ListScreen
    /\ FetchMealsCall(NextCall, "refresh")
    /\ UNCHANGED mounted

(* CatchBlock that only logs the failure. *)
CatchBlockLogging(i) ==
    /\ pc' = [pc EXCEPT ![i] = "finally"]
    /\ outcome' = [outcome EXCEPT ![i] = "fail"]
    /\ UNCHANGED << meals, isLoading, searchQuery, error, mounted, trigger, writes,
                    mealsAtCall, overlapped, superseded, lastBody, lastSettled >>

(* CatchBlock that keeps the failure to itself while a list is held. *)
CatchBlockSuppressing(i) ==
    /\ error' = IF Len(meals) = 0 THEN ErrorMessage ELSE error
    /\ pc' = [pc EXCEPT ![i] = "finally"]
    /\ outcome' = [outcome EXCEPT ![i] = "fail"]
    /\ writes' = [writes EXCEPT ![i].setError = @ + 1]
    /\ UNCHANGED << meals, isLoading, searchQuery, mounted, trigger,
                    mealsAtCall, overlapped, superseded, lastBody, lastSettled >>

(* CatchBlock that also empties the list, as a handler that resets the *)
(* whole state on failure would.                                       *)
CatchBlockClearing(i) ==
    /\ error' = ErrorMessage
    /\ meals' = <<>>
    /\ pc' = [pc EXCEPT ![i] = "finally"]
    /\ outcome' = [outcome EXCEPT ![i] = "fail"]
    /\ writes' = [writes EXCEPT ![i].setError = @ + 1]
    /\ UNCHANGED << isLoading, searchQuery, mounted, trigger,
                    mealsAtCall, overlapped, superseded, lastBody, lastSettled >>

(* The catch block, lines 52-54. *)
CatchBlock(i) ==
    /\ error' = ErrorMessage
    /\ pc' = [pc EXCEPT ![i] = "finally"]
    /\ outcome' = [outcome EXCEPT ![i] = "fail"]
    /\ writes' = [writes EXCEPT ![i].setError = @ + 1]
    /\ UNCHANGED << meals, isLoading, searchQuery, mounted, trigger,
                    mealsAtCall, overlapped, superseded, lastBody, lastSettled >>

(* `await fetch(API_URL)` rejects: a transport error. *)
FetchRejects(i) ==
    /\ ~Running
    /\ pc[i] = "fetching"
    /\ answer' = "rejected"
    /\ CatchBlock(i)

(* FetchNotOk that shows the message of the Error thrown at line 42. *)
FetchNotOkShowsStatus(i) ==
    /\ ~Running
    /\ pc[i] = "fetching"
    /\ answer' = "notOk"
    /\ error' = "HTTP Error"
    /\ pc' = [pc EXCEPT ![i] = "finally"]
    /\ outcome' = [outcome EXCEPT ![i] = "fail"]
    /\ writes' = [writes EXCEPT ![i].setError = @ + 1]
    /\ UNCHANGED << meals, isLoading, searchQuery, mounted, trigger,
                    mealsAtCall, overlapped, superseded, lastBody, lastSettled >>

(* The response arrives with !response.ok: line 42 throws. *)
FetchNotOk(i) ==
    /\ ~Running
    /\ pc[i] = "fetching"
    /\ answer' = "notOk"
    /\ CatchBlock(i)

(* FetchOk that ends the loading state as soon as the response is in. *)
FetchOkStopsLoading(i) ==
    /\ ~Running
    /\ pc[i] = "fetching"
    /\ pc' = [pc EXCEPT ![i] = "parsing"]
    /\ isLoading' = FALSE
    /\ writes' = [writes EXCEPT ![i].setIsLoadingFalse = @ + 1]
    /\ UNCHANGED << meals, searchQuery, error, mounted, trigger, mealsAtCall,
                    outcome, overlapped, superseded, lastBody, lastSettled, answer >>

(* The response arrives with response.ok: on to `await response.json()`. *)
FetchOk(i) ==
    /\ ~Running
    /\ pc[i] = "fetching"
    /\ pc' = [pc EXCEPT ![i] = "parsing"]
    /\ UNCHANGED << meals, isLoading, searchQuery, error, mounted, trigger, hist >>

(* JsonResolves that adds the array to the list instead of replacing it. *)
JsonResolvesAppending(i, data) ==
    /\ ~Running
    /\ pc[i] = "parsing"
    /\ meals' = IF HasMeals(data) THEN meals \o data.meals ELSE <<>>
    /\ pc' = [pc EXCEPT ![i] = "finally"]
    /\ outcome' = [outcome EXCEPT ![i] = "ok"]
    /\ lastBody' = data
    /\ answer' = "body"
    /\ writes' = [writes EXCEPT ![i].setMeals = @ + 1]
    /\ UNCHANGED << isLoading, searchQuery, error, mounted, trigger,
                    mealsAtCall, overlapped, superseded, lastSettled >>

(* JsonResolves that throws on a body without an array. *)
JsonResolvesThrowing(i, data) ==
    /\ ~Running
    /\ pc[i] = "parsing"
    /\ meals' = IF HasMeals(data) THEN data.meals ELSE meals
    /\ error' = IF HasMeals(data) THEN error ELSE ErrorMessage
    /\ pc' = [pc EXCEPT ![i] = "finally"]
    /\ outcome' = [outcome EXCEPT ![i] = IF HasMeals(data) THEN "ok" ELSE "fail"]
    /\ lastBody' = data
    /\ answer' = "body"
    /\ writes' = IF HasMeals(data) THEN [writes EXCEPT ![i].setMeals = @ + 1]
                 ELSE [writes EXCEPT ![i].setError = @ + 1]
    /\ UNCHANGED << isLoading, searchQuery, mounted, trigger,
                    mealsAtCall, overlapped, superseded, lastSettled >>

(* JsonResolves without the else branch of lines 49-51. *)
JsonResolvesNoElse(i, data) ==
    /\ ~Running
    /\ pc[i] = "parsing"
    /\ meals' = IF HasMeals(data) THEN data.meals ELSE meals
    /\ pc' = [pc EXCEPT ![i] = "finally"]
    /\ outcome' = [outcome EXCEPT ![i] = "ok"]
    /\ lastBody' = data
    /\ answer' = "body"
    /\ writes' = IF HasMeals(data) THEN [writes EXCEPT ![i].setMeals = @ + 1] ELSE writes
    /\ UNCHANGED << isLoading, searchQuery, error, mounted, trigger,
                    mealsAtCall, overlapped, superseded, lastSettled >>

(* JsonResolves that reports a body without an array as a failure. *)
JsonResolvesStrict(i, data) ==
    /\ ~Running
    /\ pc[i] = "parsing"
    /\ meals' = IF HasMeals(data) THEN data.meals ELSE <<>>
    /\ error' = IF HasMeals(data) THEN error ELSE ErrorMessage
    /\ pc' = [pc EXCEPT ![i] = "finally"]
    /\ outcome' = [outcome EXCEPT ![i] = "ok"]
    /\ lastBody' = data
    /\ answer' = "body"
    /\ writes' = [writes EXCEPT ![i].setMeals = @ + 1]
    /\ UNCHANGED << isLoading, searchQuery, mounted, trigger,
                    mealsAtCall, overlapped, superseded, lastSettled >>

(* response.json() resolves to data: lines 47-51. *)
JsonResolves(i, data) ==
    /\ ~Running
    /\ pc[i] = "parsing"
    /\ meals' = IF HasMeals(data) THEN data.meals ELSE <<>>
    /\ pc' = [pc EXCEPT ![i] = "finally"]
    /\ outcome' = [outcome EXCEPT ![i] = "ok"]
    /\ lastBody' = data
    /\ answer' = "body"
    /\ writes' = [writes EXCEPT ![i].setMeals = @ + 1]
    /\ UNCHANGED << isLoading, searchQuery, error, mounted, trigger,
                    mealsAtCall, overlapped, superseded, lastSettled >>

(* response.json() rejects: the body is not JSON. *)
JsonRejects(i) ==
    /\ ~Running
    /\ pc[i] = "parsing"
    /\ answer' = "unparsable"
    /\ CatchBlock(i)

(* FinallyBlock for a setIsLoading(false) that ends the try block instead *)
(* of standing in a finally block: a failing call skips it.               *)
FinallyBlockOnSuccessOnly(i) ==
    /\ pc[i] = "finally"
    /\ isLoading' = IF outcome[i] = "ok" THEN FALSE ELSE isLoading
    /\ pc' = [pc EXCEPT ![i] = "done"]
    /\ writes' = IF outcome[i] = "ok"
                 THEN [writes EXCEPT ![i].setIsLoadingFalse = @ + 1]
                 ELSE writes
    /\ lastSettled' = i
    /\ answer' = "none"
    /\ mealsAtCall' = [mealsAtCall EXCEPT ![i] = <<>>]
    /\ UNCHANGED << meals, searchQuery, error, mounted, trigger,
                    outcome, overlapped, superseded, lastBody >>

(* FinallyBlock without its setIsLoading(false). *)
FinallyBlockSkipped(i) ==
    /\ pc[i] = "finally"
    /\ pc' = [pc EXCEPT ![i] = "done"]
    /\ lastSettled' = i
    /\ answer' = "none"
    /\ mealsAtCall' = [mealsAtCall EXCEPT ![i] = <<>>]
    /\ UNCHANGED << meals, isLoading, searchQuery, error, mounted, trigger,
                    outcome, writes, overlapped, superseded, lastBody >>

(* The finally block, lines 55-57, and the return of the call. *)
FinallyBlock(i) ==
    /\ pc[i] = "finally"
    /\ isLoading' = FALSE
    /\ pc' = [pc EXCEPT ![i] = "done"]
    /\ writes' = [writes EXCEPT ![i].setIsLoadingFalse = @ + 1]
    /\ lastSettled' = i
    /\ answer' = "none"
    /\ mealsAtCall' = [mealsAtCall EXCEPT ![i] = <<>>]
    /\ UNCHANGED << meals, searchQuery, error, mounted, trigger,
                    outcome, overlapped, superseded, lastBody >>

(* SetSearchQuery that shows the refresh indicator while the list is *)
(* filtered.                                                         *)
SetSearchQueryLoading(q) ==
    /\ ~Running
    /\ ListScreen
    /\ searchQuery' = q
    /\ isLoading' = TRUE
    /\ UNCHANGED << meals, error, mounted, pc, trigger, hist >>

(* onChangeText={setSearchQuery} of the TextInput, on the list screen. *)
SetSearchQuery(q) ==
    /\ ~Running
    /\ ListScreen
    /\ searchQuery' = q
    /\ UNCHANGED << meals, isLoading, error, mounted, pc, trigger, hist >>

(* FilterMeals without the toLowerCase() of the query. *)
FilterMealsQueryAsTyped(ms, q) ==
    SelectSeq(ms, LAMBDA meal : Includes(ToLowerCase(meal.strMeal), q))

(* const filteredMeals = meals.filter(...), lines 64-66. *)
FilterMeals(ms, q) ==
    SelectSeq(ms, LAMBDA meal : Includes(ToLowerCase(meal.strMeal), ToLowerCase(q)))

filteredMeals == FilterMeals(meals, searchQuery)

Next ==
    \/ Mount
    \/ Retry
    \/ Refresh
    \/ \E i \in Calls : FetchRejects(i)
    \/ \E i \in Calls : FetchNotOk(i)
    \/ \E i \in Calls : FetchOk(i)
    \/ \E i \in Calls, data \in Bodies : JsonResolves(i, data)
    \/ \E i \in Calls : JsonRejects(i)
    \/ \E i \in Calls : FinallyBlock(i)
    \/ \E q \in Queries : SetSearchQuery(q)

Spec == Init /\ [][Next]_vars

(* The program right after its first call of fetchMeals has returned with *)
(* the array `list`: the list screen, with the search box still empty.    *)
ListLoaded(list) ==
    /\ meals = list
    /\ isLoading = FALSE
    /\ searchQuery = <<>>
    /\ error = Null
    /\ mounted = TRUE
    /\ pc = [i \in Calls |-> IF i = 1 THEN "done" ELSE "idle"]
    /\ trigger = [i \in Calls |-> IF i = 1 THEN "mount" ELSE "none"]
    /\ mealsAtCall = [i \in Calls |-> <<>>]
    /\ outcome = [i \in Calls |-> IF i = 1 THEN "ok" ELSE "none"]
    /\ writes = [i \in Calls |->
                   IF i = 1 THEN [setMeals |-> 1, setError |-> 0, setIsLoadingFalse |-> 1]
                   ELSE NoWrites]
    /\ overlapped = [i \in Calls |-> FALSE]
    /\ superseded = [i \in Calls |-> FALSE]
    /\ lastBody = [shape |-> "array", meals |-> list]
    /\ lastSettled = 1
    /\ answer = "none"

FilterInit == \E list \in Lists : ListLoaded(list)

(* The user edits the search box; every render recomputes filteredMeals. *)
TypeQuery == \E q \in Needles : SetSearchQuery(q)

FilterSpec == FilterInit /\ [][TypeQuery]_vars

TypeOK ==
    /\ meals \in MealArrays \cup Lists
    /\ isLoading \in BOOLEAN
    /\ searchQuery \in Queries \cup Needles
    /\ error \in {Null, ErrorMessage}
    /\ mounted \in BOOLEAN
    /\ pc \in [Calls -> {"idle", "fetching", "parsing", "finally", "done"}]

(***************************************************************************)
(* Vocabulary of the properties.                                           *)
(***************************************************************************)
Started(i) == pc[i] # "idle"
Returned(i) == pc[i] = "done"
Quiescent == \A i \in Calls : ~InFlight(i)

(* Call i returns in this step. *)
Returns(i) == pc[i] = "finally" /\ pc'[i] = "done"

(* The continuation of call i that runs when the network answers it. *)
Continues(i) ==
    \/ FetchRejects(i) \/ FetchNotOk(i) \/ FetchOk(i)
    \/ JsonRejects(i) \/ \E data \in Bodies : JsonResolves(i, data)
    \/ FinallyBlock(i)

(* Call i is made in this step. *)
IsCalled(i) == pc[i] = "idle" /\ pc'[i] = "fetching"

(***************************************************************************)
(* C1.  As claimed: in every reachable state isLoading is true if and only *)
(* if some call of fetchMeals has been made and has not yet returned,      *)
(* overlapping calls included.                                             *)
(* Read from the mount effect on, which makes the first call.              *)
(***************************************************************************)
C1_AsClaimed == mounted => (isLoading <=> \E i \in Calls : InFlight(i))

(* C1, amended: isLoading is true only if a call is in flight or the mount *)
(* effect has not run yet; and a call in flight that no other call has     *)
(* overlapped keeps isLoading true until it returns.                       *)
C1_LoadingWhileInFlight ==
    /\ isLoading => (~mounted \/ \E i \in Calls : InFlight(i))
    /\ \A i \in Calls : (InFlight(i) /\ ~overlapped[i]) => isLoading

(* A refresh in flight on its own, the stale list still held. *)
C1_Witness ==
    \E i \in Calls :
        /\ InFlight(i) /\ ~overlapped[i] /\ trigger[i] = "refresh"
        /\ isLoading /\ Len(meals) > 0

(***************************************************************************)
(* C2.  As claimed: every call of fetchMeals, succeeding or failing, takes *)
(* isLoading from true to false exactly once, by its return.               *)
(***************************************************************************)
C2_AsClaimed ==
    [][\A i \in Calls : Returns(i) => (isLoading /\ ~isLoading')]_vars

(* C2, amended: every call of fetchMeals, succeeding or failing, writes    *)
(* isLoading = false exactly once, as its last step, so that isLoading is  *)
(* false right after it returns; the write takes isLoading from true to    *)
(* false when no other call has overlapped this one; and no call in flight *)
(* is ever stuck: once no handler is mid-way its next continuation can     *)
(* run, and each continuation takes it closer to its return.               *)
C2_LoadingFlagSettles ==
    /\ [](\A i \in Calls :
            writes[i].setIsLoadingFalse = IF Returned(i) THEN 1 ELSE 0)
    /\ [][\A i \in Calls :
            Returns(i) => /\ ~isLoading'
                          /\ ~overlapped[i] => isLoading]_vars
    /\ [](\A i \in Calls :
            InFlight(i) => (ENABLED Continues(i) \/ Running))
    /\ [][\A i \in Calls :
            pc'[i] # pc[i] =>
                << pc[i], pc'[i] >> \in
                    { << "idle", "fetching" >>, << "fetching", "parsing" >>,
                      << "fetching", "finally" >>, << "parsing", "finally" >>,
                      << "finally", "done" >> }]_vars

(* A failed call and a successful call have both returned, neither *)
(* overlapped, and isLoading is false.                             *)
C2_Witness ==
    /\ \E i \in Calls : Returned(i) /\ outcome[i] = "fail" /\ ~overlapped[i]
    /\ \E i \in Calls : Returned(i) /\ outcome[i] = "ok" /\ ~overlapped[i]
    /\ Quiescent
    /\ ~isLoading

(***************************************************************************)
(* C3.  As claimed: a call of fetchMeals made with a non-empty list, and   *)
(* failing, returns with the list it was called with.                      *)
(***************************************************************************)
C3_AsClaimed ==
    [][\A i \in Calls :
        (Returns(i) /\ outcome[i] = "fail" /\ Len(mealsAtCall[i]) > 0)
            => meals' = mealsAtCall[i]]_vars

(* C3, amended: a failing call does not write the list (neither its catch  *)
(* block nor its finally block changes meals); so a call made with a       *)
(* non-empty list, and failing, returns with the list it was called with   *)
(* provided no other call was in flight between its call and its return.   *)
C3_FailureKeepsItems ==
    /\ [][\A i \in Calls :
            (outcome'[i] = "fail" /\ pc'[i] # pc[i]) => meals' = meals]_vars
    /\ [][\A i \in Calls :
            (Returns(i) /\ outcome[i] = "fail" /\ Len(mealsAtCall[i]) > 0
                /\ ~overlapped[i])
                => meals' = mealsAtCall[i]]_vars

(* A refresh made with a non-empty list has failed and is about to return, *)
(* the list untouched.                                                     *)
C3_Witness ==
    \E i \in Calls :
        /\ pc[i] = "finally" /\ outcome[i] = "fail" /\ ~overlapped[i]
        /\ Len(mealsAtCall[i]) > 0 /\ meals = mealsAtCall[i]

(***************************************************************************)
(* C4.  As claimed: error is non-null only if the call that returned last  *)
(* failed and the list is empty.  Read in the states between handlers, so  *)
(* that "returned last" speaks of a call whose writes are all done.        *)
(***************************************************************************)
C4_AsClaimed ==
    (error # Null /\ ~Running) =>
        /\ lastSettled # 0
        /\ outcome[lastSettled] = "fail"
        /\ Len(meals) = 0

(* C4, amended: error is non-null only if some call failed and no call has *)
(* been made since that failure; then, between handlers, the call that     *)
(* returned last failed or overlapped another call.  The list need not be  *)
(* empty: a failed refresh leaves error set next to the list it kept.      *)
C4_ErrorOnlyAfterFailure ==
    error # Null =>
        /\ \E i \in Calls : outcome[i] = "fail" /\ ~superseded[i]
        /\ ~Running =>
              /\ lastSettled # 0
              /\ outcome[lastSettled] = "fail" \/ overlapped[lastSettled]

(* A refresh has failed and returned: error is set and the list is kept. *)
C4_Witness ==
    /\ error # Null
    /\ Len(meals) > 0
    /\ Quiescent
    /\ lastSettled # 0
    /\ outcome[lastSettled] = "fail"
    /\ trigger[lastSettled] = "refresh"

(* The list a parsed body stands for. *)
ArrayOf(data) == IF data.shape = "array" THEN data.meals ELSE <<>>

(***************************************************************************)
(* C5.  As claimed: when calls overlapped and the last of them returns,    *)
(* meals, error and isLoading are what that last call alone determines: a  *)
(* success leaves its array and no error, a failure leaves its message and *)
(* the list the call was made with.                                        *)
(***************************************************************************)
C5_AsClaimed ==
    [][\A j \in Calls :
        (Returns(j) /\ overlapped[j] /\ \A i \in Calls \ {j} : ~InFlight(i)) =>
            /\ ~isLoading'
            /\ outcome[j] = "ok" => (error' = Null /\ meals' = ArrayOf(lastBody))
            /\ outcome[j] = "fail" =>
                  (error' = ErrorMessage /\ meals' = mealsAtCall[j])]_vars

(* C5, amended: when calls overlapped and all have returned, each cell     *)
(* holds its own last write: isLoading is false; meals is the array of the *)
(* latest body that was parsed, whichever call returned last; and error is *)
(* non-null if and only if one of the calls failed after the latest call   *)
(* was made, even if a successful call returned after it.                  *)
C5_LastWritePerCell ==
    (Quiescent /\ lastSettled # 0 /\ overlapped[lastSettled]) =>
        /\ ~isLoading
        /\ meals = ArrayOf(lastBody)
        /\ error # Null <=> \E i \in Calls : outcome[i] = "fail" /\ ~superseded[i]

(* Two overlapping calls have returned, the failing one first: the last *)
(* call succeeded, and the error of the other is still there.           *)
C5_Witness ==
    /\ Quiescent
    /\ lastSettled # 0
    /\ overlapped[lastSettled]
    /\ outcome[lastSettled] = "ok"
    /\ error # Null
    /\ Len(meals) > 0

(***************************************************************************)
(* C6.  When the network answers a call of fetchMeals for good, the call   *)
(* does exactly one of two writes, setMeals(array) on success or           *)
(* setError(message) on failure; never both, never neither, and nothing    *)
(* more before it returns.                                                 *)
(***************************************************************************)
C6_ExactlyOneOutcomeWrite ==
    /\ [](\A i \in Calls :
            /\ pc[i] \in {"idle", "fetching", "parsing"} =>
                  (writes[i].setMeals = 0 /\ writes[i].setError = 0)
            /\ pc[i] \in {"finally", "done"} =>
                  \/ outcome[i] = "ok" /\ writes[i].setMeals = 1 /\ writes[i].setError = 0
                  \/ outcome[i] = "fail" /\ writes[i].setMeals = 0 /\ writes[i].setError = 1)
    /\ [][\A i \in Calls :
            /\ (pc[i] # "finally" /\ pc'[i] = "finally") =>
                  \/ outcome'[i] = "ok" /\ meals' = ArrayOf(lastBody') /\ error' = error
                  \/ outcome'[i] = "fail" /\ error' = ErrorMessage /\ meals' = meals
            /\ Returns(i) => (meals' = meals /\ error' = error)]_vars

(* One call has set the error, another has written the empty list for a *)
(* body without an array; both have returned.                           *)
C6_Witness ==
    /\ \E i \in Calls : Returned(i) /\ outcome[i] = "fail" /\ writes[i].setError = 1
    /\ \E i \in Calls : Returned(i) /\ outcome[i] = "ok" /\ writes[i].setMeals = 1
                          /\ lastBody.shape # "array"
    /\ Len(meals) = 0

(***************************************************************************)
(* C7.  Right after any call of fetchMeals is made (by the mount effect,   *)
(* the retry button or a refresh, from any state), error is null and       *)
(* isLoading is true.                                                      *)
(***************************************************************************)
C7_CallClearsError ==
    [][\A i \in Calls : IsCalled(i) => (error' = Null /\ isLoading')]_vars

(* A retry, which is made with error set, is in flight. *)
C7_Witness ==
    \E i \in Calls :
        /\ pc[i] = "fetching" /\ trigger[i] = "retry"
        /\ error = Null /\ isLoading

(***************************************************************************)
(* C8.  In no state has a call of fetchMeals written isLoading = false     *)
(* without having written its outcome (setMeals or setError) before.       *)
(***************************************************************************)
C8_OutcomeBeforeLoadingFalse ==
    \A i \in Calls :
        writes[i].setIsLoadingFalse > 0 =>
            /\ outcome[i] # "none"
            /\ writes[i].setMeals + writes[i].setError > 0

(* The state between the two writes: the new list is in, isLoading is *)
(* still true.                                                        *)
C8_Witness ==
    \E i \in Calls :
        /\ pc[i] = "finally" /\ outcome[i] = "ok"
        /\ writes[i].setIsLoadingFalse = 0
        /\ isLoading /\ Len(meals) > 0 /\ meals = ArrayOf(lastBody)

(***************************************************************************)
(* C9.  A step that changes searchQuery changes nothing else of the        *)
(* program: not meals, isLoading or error, and no call of fetchMeals is    *)
(* made or moved by it; and the search box takes any string whenever it is *)
(* on screen, calls in flight or not.                                      *)
(***************************************************************************)
C9_QueryOnlyChangesQuery ==
    /\ [][searchQuery' # searchQuery =>
            UNCHANGED << meals, isLoading, error, mounted, pc, trigger, hist >>]_vars
    /\ []((ListScreen /\ ~Running) =>
            \A q \in Queries : ENABLED SetSearchQuery(q))

(* The query was typed and stands while a call is in flight. *)
C9_Witness ==
    /\ Len(searchQuery) > 0
    /\ \E i \in Calls : InFlight(i)
    /\ Len(meals) > 0

(***************************************************************************)
(* C10.  filteredMeals is exactly the order-preserving subsequence of      *)
(* meals whose strMeal contains the query as a substring, letters compared *)
(* without regard to case; with the empty query it is meals, and when no   *)
(* strMeal matches it is empty.                                            *)
(***************************************************************************)
(* The same letter, in either case. *)
SameLetter(c, d) == c = d \/ {c, d} = {"a", "A"}

(* q occurs in name at some offset, case disregarded. *)
ContainsIgnoringCase(name, q) ==
    \E off \in 0..(Len(name) - Len(q)) :
        \A k \in 1..Len(q) : SameLetter(name[off + k], q[k])

(* The positions of meals that match the query. *)
Matching == { k \in 1..Len(meals) : ContainsIgnoringCase(meals[k].strMeal, searchQuery) }

(* The n-th matching position, in the order of meals. *)
NthMatching(n) == CHOOSE k \in Matching : Cardinality({ j \in Matching : j <= k }) = n

C10_FilterIsMatchingSubsequence ==
    /\ Len(filteredMeals) = Cardinality(Matching)
    /\ \A n \in 1..Len(filteredMeals) : filteredMeals[n] = meals[NthMatching(n)]
    /\ searchQuery = <<>> => filteredMeals = meals
    /\ Matching = {} => filteredMeals = <<>>

(* Two meals, a query in capitals longer than one letter, and only the *)
(* second meal passes.                                                 *)
C10_Witness ==
    /\ Len(meals) = 2
    /\ Len(searchQuery) = 2
    /\ \E k \in 1..2 : searchQuery[k] = "A"
    /\ filteredMeals = << meals[2] >>

(* The continuation of call i gets its final answer in this step. *)
Answered(i) == pc[i] \in {"fetching", "parsing"} /\ pc'[i] = "finally"

(***************************************************************************)
(* C11.  fetchMeals is called by the mount effect exactly once, first and  *)
(* with no user action possible before it; every other call is made by the *)
(* retry button or by a refresh.                                           *)
(***************************************************************************)
C11_OneAutomaticCall ==
    /\ Cardinality({ i \in Calls : trigger[i] = "mount" }) = IF mounted THEN 1 ELSE 0
    /\ mounted => trigger[1] = "mount"
    /\ \A i \in Calls : Started(i) => (mounted /\ trigger[i] \in {"mount", "retry", "refresh"})
    /\ \A i \in Calls : i > 1 => trigger[i] # "mount"
    /\ ~mounted => (ENABLED Mount /\ ~ENABLED (Retry \/ Refresh))

(* After the automatic call, a retry and a refresh have been made. *)
C11_Witness ==
    /\ trigger[1] = "mount"
    /\ \E i \in Calls : trigger[i] = "retry"
    /\ \E i \in Calls : trigger[i] = "refresh"

(***************************************************************************)
(* C12.  A call whose response is ok and whose body parses, but holds no   *)
(* array under "meals" (the key null or absent, or the body null), ends as *)
(* a success: meals becomes the empty list, whatever it held, and the call *)
(* does not set error, neither then nor by its return.                     *)
(***************************************************************************)
C12_NoArrayIsEmptySuccess ==
    /\ [][\A i \in Calls :
            (Answered(i) /\ answer' = "body" /\ ~HasMeals(lastBody')) =>
                /\ outcome'[i] = "ok"
                /\ meals' = <<>>
                /\ error' = error]_vars
    /\ [][\A i \in Calls :
            (Returns(i) /\ answer = "body" /\ ~HasMeals(lastBody)) =>
                /\ outcome[i] = "ok"
                /\ writes'[i].setError = 0
                /\ meals' = <<>>
                /\ error' = error]_vars

(* A refresh made with a list has returned with {"meals": null}: the list *)
(* is empty and there is no error.                                        *)
C12_Witness ==
    /\ Quiescent
    /\ lastSettled # 0
    /\ trigger[lastSettled] = "refresh"
    /\ ~overlapped[lastSettled]
    /\ outcome[lastSettled] = "ok"
    /\ lastBody.shape = "mealsNull"
    /\ Len(meals) = 0
    /\ error = Null

(***************************************************************************)
(* C13.  After a failed call the program is not stuck: once the call has   *)
(* returned and nothing is in flight, the retry button or the refresh      *)
(* gesture is there to call fetchMeals again (and at any time either a     *)
(* call can be made or one is in flight); and when a later call that no    *)
(* other call overlaps succeeds, it returns with error null, meals equal   *)
(* to the array of its response and isLoading false.                       *)
(***************************************************************************)
C13_FailureIsRecoverable ==
    /\ []((Quiescent /\ lastSettled # 0 /\ outcome[lastSettled] = "fail"
              /\ NextCall \in Calls)
            => ENABLED (Retry \/ Refresh))
    /\ []((mounted /\ ~Running /\ NextCall \in Calls)
            => (ENABLED (Retry \/ Refresh) \/ \E i \in Calls : InFlight(i)))
    /\ [][\A j \in Calls :
            (Returns(j) /\ ~overlapped[j] /\ outcome[j] = "ok"
                /\ \E i \in Calls : Returned(i) /\ outcome[i] = "fail")
            => (error' = Null /\ meals' = ArrayOf(lastBody) /\ ~isLoading')]_vars

(* The first call failed on an empty list, the retry succeeded with a *)
(* record: no error, the record is held, isLoading is false.          *)
C13_Witness ==
    /\ Quiescent
    /\ outcome[1] = "fail"
    /\ lastSettled = 2
    /\ trigger[2] = "retry"
    /\ outcome[2] = "ok"
    /\ error = Null
    /\ Len(meals) > 0
    /\ meals = lastBody.meals
    /\ ~isLoading

(* The condition of line 77, under which the error is shown. *)
ErrorDisplayed == error # Null /\ Len(meals) = 0

(***************************************************************************)
(* C14.  When a call fails, error is non-null from its catch block to its  *)
(* return; if meals is empty at the failure the error is displayed after   *)
(* the return (the error screen is shown), and if meals is non-empty it is *)
(* not.                                                                    *)
(***************************************************************************)
C14_ErrorShownOnlyWithoutItems ==
    /\ [][\A i \in Calls :
            (Answered(i) /\ outcome'[i] = "fail") =>
                /\ error' # Null
                /\ ErrorDisplayed' <=> Len(meals) = 0]_vars
    /\ [][\A i \in Calls :
            (Returns(i) /\ outcome[i] = "fail") =>
                /\ error' # Null
                /\ ErrorDisplayed' <=> Len(meals) = 0
                /\ ErrorScreen' <=> Len(meals) = 0]_vars

(* A failed refresh has returned: the list is shown, the error is not, *)
(* though it is set.                                                   *)
C14_Witness ==
    /\ Quiescent
    /\ lastSettled # 0
    /\ outcome[lastSettled] = "fail"
    /\ outcome[1] = "fail"
    /\ Len(meals) > 0
    /\ error # Null
    /\ ListScreen

(* The three ways a call can fail, as the network hands them over. *)
FailureKinds == {"rejected", "notOk", "unparsable"}

(***************************************************************************)
(* C15.  What a failing call leaves does not depend on the kind of the     *)
(* failure: for a rejected fetch, a response that is not ok and a body     *)
(* that does not parse alike, the catch block leaves meals and isLoading   *)
(* as they were and sets error to the one fixed message, and the return    *)
(* leaves meals and that message and sets isLoading false; and the two     *)
(* kinds that end `await fetch` are possible in the same states.           *)
(***************************************************************************)
C15_FailureKindIsCollapsed ==
    /\ [][\A i \in Calls :
            (Answered(i) /\ answer' \in FailureKinds) =>
                /\ outcome'[i] = "fail"
                /\ meals' = meals
                /\ error' = ErrorMessage
                /\ isLoading' = isLoading]_vars
    /\ [][\A i \in Calls :
            (Returns(i) /\ answer \in FailureKinds) =>
                /\ meals' = meals
                /\ error' = ErrorMessage
                /\ error = ErrorMessage
                /\ ~isLoading']_vars
    /\ [](\A i \in Calls : ENABLED FetchRejects(i) <=> ENABLED FetchNotOk(i))

(* A refresh got a response that is not ok: the fixed message is set, the *)
(* list is kept.                                                          *)
C15_Witness ==
    \E i \in Calls :
        /\ pc[i] = "finally" /\ answer = "notOk"
        /\ error = ErrorMessage /\ Len(meals) > 0 /\ isLoading

C17_CallKeepsItemsAndQuery ==
    /\ [][\A i \in Calls :
            IsCalled(i) => (meals' = meals /\ searchQuery' = searchQuery)]_vars
    /\ [][meals' # meals =>
            \E i \in Calls : Answered(i) /\ outcome'[i] = "ok"]_vars
    /\ [](\A i \in Calls :
            (InFlight(i) /\ i + 1 = NextCall
                /\ \A j \in Calls : outcome[j] = "ok" => superseded[j])
            => meals = mealsAtCall[i])
    /\ [][(\E i \in Calls : pc'[i] # pc[i]) => searchQuery' = searchQuery]_vars

(* A refresh is in flight: the list and the query typed before it are *)
(* still there.                                                       *)
C17_Witness ==
    \E i \in Calls :
        /\ pc[i] = "parsing" /\ trigger[i] = "refresh"
        /\ Len(mealsAtCall[i]) > 0 /\ meals = mealsAtCall[i]
        /\ Len(searchQuery) > 0

(***************************************************************************)
(* C18.  Once the mount effect has made the first call, isLoading is false *)
(* in every state in which no call is in flight, however many calls were   *)
(* made and however they overlapped.                                       *)
(***************************************************************************)
C18_IdleMeansNotLoading == (mounted /\ Quiescent) => ~isLoading

(* Three calls have returned, two of them overlapping, one of them failed. *)
C18_Witness ==
    /\ Quiescent
    /\ NextCall = 4
    /\ \E i \in Calls : overlapped[i] /\ outcome[i] = "fail"
    /\ \E i \in Calls : overlapped[i] /\ outcome[i] = "ok"
    /\ ~isLoading

(***************************************************************************)
(* C19.  As long as no call has been made while another was in flight: in  *)
(* every state with no call in flight, error is non-null if and only if    *)
(* the call that returned last failed.                                     *)
(***************************************************************************)
C19_ErrorIffLastFailed ==
    (Quiescent /\ \A i \in Calls : ~overlapped[i]) =>
        (error # Null <=> (lastSettled # 0 /\ outcome[lastSettled] = "fail"))

(* A failure, a successful retry and a failed refresh, one after the *)
(* other: error is set.                                              *)
C19_Witness ==
    /\ Quiescent
    /\ \A i \in Calls : ~overlapped[i]
    /\ outcome[1] = "fail"
    /\ outcome[2] = "ok"
    /\ lastSettled = 3
    /\ outcome[3] = "fail"
    /\ error # Null
====
